---- MODULE Spec2Model ----
(***************************************************************************)
(* Model of the e-commerce event processor: the Pub/Sub push endpoint      *)
(* (app/main.py pubsub_push), the event router (app/processor.py           *)
(* process_event, _insert_error_event, the EcommerceEvent schema and the   *)
(* timestamp helpers) and the streaming-insert writer (app/bq_client.py    *)
(* BigQueryWriter.insert_row).                                             *)
(*                                                                         *)
(* Conventions.  A Python `str | None` or `datetime | None` is a sequence   *)
(* of length 0 or 1: None is the empty sequence and Some(v) holds v, so no  *)
(* text, not even "None", is taken for None.  A JSON value is kept as its   *)
(* JSON type and its text (J below).  A timestamp string is kept as the    *)
(* structure its text denotes (TimeText below), since strings are atomic   *)
(* in TLA+.                                                                *)
(***************************************************************************)
EXTENDS Integers, Sequences, FiniteSets, TLC

\* ------------------------------------------------------------------ bounds
\* Number of deliveries (first deliveries and redeliveries) in one behaviour.
MaxDeliveries == 2

\* ------------------------------------------------------- program constants
\* Field(max_length=128) of user_id, product_id, category and city.
MaxStrLen == 128

None == <<>>
Some(value) == <<value>>

\* str(x) of an optional text.
str(value) == IF value = None THEN "None" ELSE value[1]

\* ---------------------------------------------------------- timestamp text
\* A timestamp string, by what it denotes.  form: "absent" (no string, or the
\* empty string), "malformed" (no parser takes it: "not-a-time", "1e+30"),
\* "naive" (no offset), "zulu" (trailing Z), "offset" (explicit +hh:mm),
\* "unix" (the decimal numeral of a Unix time in seconds, of nine or ten
\* digits for the instants used here, which fromisoformat rejects), "lowerz"
\* (a trailing lower-case z, "2024-01-01T00:00:00z": line 108 replaces the
\* capital Z only and fromisoformat rejects the text, the schema's parser
\* takes it as UTC), "lenient" (a text fromisoformat of line 110 takes and the
\* schema's parser does not: blanks around it, which line 108 strips, the
\* basic format "20240101T000000Z", an offset of hours alone "+05"),
\* "lenient_naive" (the same without any offset, " 2024-01-01T01:00:00 ",
\* "20240101T010000").  A
\* numeral of eight digits, which fromisoformat reads as a calendar date, is
\* none of these forms and is not among the texts modelled.  wall is the
\* wall-clock reading in minutes and off the offset in minutes.
TimeText(form, wall, off) == [form |-> form, wall |-> wall, off |-> off]
AbsentTime == TimeText("absent", 0, 0)
MalformedTime == TimeText("malformed", 0, 0)

\* datetime objects: wall-clock reading, utc offset, and whether tzinfo is set.
DateTime(wall, off, aware) == [wall |-> wall, off |-> off, aware |-> aware]

\* datetime.astimezone(UTC) of an aware datetime.
AsUTC(dt) == DateTime(dt.wall - dt.off, 0, TRUE)

\* datetime.min and datetime.max on the minute scale of the model, and the
\* OverflowError ("date value out of range") of astimezone(UTC) when the UTC
\* reading of an aware datetime lies outside them.
DatetimeMin == -600
DatetimeMax == 600
Overflows(dt) ==
    dt.aware /\ (dt.wall - dt.off < DatetimeMin \/ dt.wall - dt.off > DatetimeMax)

\* _utc_now(): the wall clock read as an aware UTC datetime.
utc_now(tick) == DateTime(tick, 0, TRUE)

\* datetime.fromisoformat after the "Z" -> "+00:00" replacement: <<>> stands
\* for the ValueError.
fromisoformat(text) ==
    CASE text.form = "naive"  -> <<DateTime(text.wall, 0, FALSE)>>
      [] text.form = "zulu"   -> <<DateTime(text.wall, 0, TRUE)>>
      [] text.form = "offset" -> <<DateTime(text.wall, text.off, TRUE)>>
      [] text.form = "lenient" -> <<DateTime(text.wall, text.off, TRUE)>>
      [] text.form = "lenient_naive" -> <<DateTime(text.wall, 0, FALSE)>>
      [] OTHER                -> <<>>

\* _parse_rfc3339_timestamp(value), where it returns: <<>> is the absence
\* value.  Where it raises is parse_rfc3339_timestamp_raises below.
parse_rfc3339_timestamp(value) ==
    IF value.form = "absent" THEN <<>>
    ELSE LET parsed == fromisoformat(value) IN
         IF parsed = <<>> THEN <<>>
         ELSE IF ~parsed[1].aware
              THEN <<DateTime(parsed[1].wall, 0, TRUE)>>
              ELSE <<AsUTC(parsed[1])>>

\* Whether _parse_rfc3339_timestamp(value) raises instead of returning: only
\* ValueError is caught (lines 109-112), the astimezone(UTC) of line 117 is
\* outside the try.
parse_rfc3339_timestamp_raises(value) ==
    /\ value.form # "absent"
    /\ fromisoformat(value) # <<>>
    /\ Overflows(fromisoformat(value)[1])

\* _to_rfc3339(dt): the text isoformat() gives for the UTC reading, with the
\* "+00:00" suffix replaced by "Z"; None stays None.
to_rfc3339(dt) ==
    IF dt = <<>> THEN AbsentTime
    ELSE LET normalized == IF ~dt[1].aware
                           THEN DateTime(dt[1].wall, 0, TRUE)
                           ELSE AsUTC(dt[1])
         IN TimeText("zulu", normalized.wall, 0)

\* -------------------------------------------------------------- JSON values
\* A value of the decoded payload: its JSON type and its text.  type "absent"
\* is a key the mapping does not hold.
J(type, text) == [type |-> type, text |-> text]
Absent == J("absent", "")
Null == J("null", "")
Str(s) == J("string", s)
Num(s) == J("number", s)
Bool(s) == J("boolean", s)
\* The event_time value carries the timestamp its text denotes.
JTime(type, time) == [type |-> type, time |-> time]

\* class EventType(str, Enum)
EventType ==
    {"view", "add_to_cart", "remove_from_cart", "checkout", "purchase", "search"}

\* class DeviceType(str, Enum)
DeviceType == {"mobile", "desktop", "tablet"}

\* uuid parsing of a string and str() of the result: the canonical lower-case
\* hyphenated form, or None when the text is no UUID.
UuidA == "aaaaaaaa-aaaa-4aaa-8aaa-aaaaaaaaaaaa"
UuidB == "bbbbbbbb-bbbb-4bbb-8bbb-bbbbbbbbbbbb"
CanonicalUuid(text) ==
    CASE text = UuidA -> Some(UuidA)
      [] text = "AAAAAAAA-AAAA-4AAA-8AAA-AAAAAAAAAAAA" -> Some(UuidA)
      [] text = "aaaaaaaaaaaa4aaa8aaaaaaaaaaaaaaa" -> Some(UuidA)
      [] text = UuidB -> Some(UuidB)
      [] OTHER -> None

\* float() of a decimal text, in hundredths; <<>> when the text is no number.
Hundredths(text) ==
    CASE text = "12.5" -> <<1250>>
      [] text = "0" -> <<0>>
      [] text = "0.0" -> <<0>>
      [] text = "1.0" -> <<100>>
      [] text = "-5" -> <<-500>>
      [] text = "0.01" -> <<1>>
      [] OTHER -> <<>>

\* ------------------------------------------------- EcommerceEvent validation
\* One field's defects under the lax-mode rules of the schema; <<>> when the
\* field is accepted.  Each defect names the field (loc) and the rule (type).
Defect(loc, type) == [loc |-> loc, type |-> type]

\* event_id: UUID
UuidDefects(loc, v) ==
    IF v.type = "absent" THEN <<Defect(loc, "missing")>>
    ELSE IF v.type # "string" THEN <<Defect(loc, "uuid_type")>>
    ELSE IF CanonicalUuid(v.text) = None THEN <<Defect(loc, "uuid_parsing")>>
    ELSE <<>>

\* str = Field(min_length=1, max_length=128)
StrDefects(loc, v) ==
    IF v.type = "absent" THEN <<Defect(loc, "missing")>>
    ELSE IF v.type # "string" THEN <<Defect(loc, "string_type")>>
    ELSE IF Len(v.text) < 1 THEN <<Defect(loc, "string_too_short")>>
    ELSE IF Len(v.text) > MaxStrLen THEN <<Defect(loc, "string_too_long")>>
    ELSE <<>>

\* EventType / DeviceType: exact match of a member's value
EnumDefects(loc, v, members) ==
    IF v.type = "absent" THEN <<Defect(loc, "missing")>>
    ELSE IF v.type = "string" /\ v.text \in members THEN <<>>
    ELSE <<Defect(loc, "enum")>>

\* What the schema's float field makes of a value, in hundredths, <<>> when
\* it rejects it: numbers and numeric strings are read as floats, and a JSON
\* boolean is taken as 1.0 or 0.0.
FloatParse(v) ==
    IF v.type = "boolean" THEN (IF v.text = "true" THEN <<100>> ELSE <<0>>)
    ELSE IF v.type \in {"number", "string"} THEN Hundredths(v.text)
    ELSE <<>>

\* price: float = Field(ge=0)
FloatDefects(loc, v) ==
    IF v.type = "absent" THEN <<Defect(loc, "missing")>>
    ELSE IF v.type \notin {"number", "string", "boolean"}
    THEN <<Defect(loc, "float_type")>>
    ELSE IF FloatParse(v) = <<>> THEN <<Defect(loc, "float_parsing")>>
    ELSE IF FloatParse(v)[1] < 0 THEN <<Defect(loc, "greater_than_equal")>>
    ELSE <<>>

\* The schema's own reading of a timestamp string, which is not the
\* normalizer's: <<>> when it rejects the text.  It takes a trailing z of
\* either case and a numeral as Unix time, and takes neither surrounding
\* blanks nor the basic format nor an offset of hours alone.
datetime_from_string(text) ==
    CASE text.form = "naive"  -> <<DateTime(text.wall, 0, FALSE)>>
      [] text.form = "zulu"   -> <<DateTime(text.wall, 0, TRUE)>>
      [] text.form = "lowerz" -> <<DateTime(text.wall, 0, TRUE)>>
      [] text.form = "offset" -> <<DateTime(text.wall, text.off, TRUE)>>
      [] text.form = "unix"   -> <<DateTime(text.wall, 0, TRUE)>>
      [] OTHER                -> <<>>

\* What the schema's datetime field makes of a value, <<>> when it rejects
\* it: a number is read as Unix time and gives an aware UTC datetime, unless
\* it is out of range (1e30, whose time is "malformed"); a string is read by
\* the schema's parser.
DatetimeParse(v) ==
    IF v.type = "number"
    THEN (IF v.time.form = "unix" THEN <<DateTime(v.time.wall, 0, TRUE)>> ELSE <<>>)
    ELSE IF v.type = "string" THEN datetime_from_string(v.time)
    ELSE <<>>

\* event_time: datetime
DatetimeDefects(loc, v) ==
    IF v.type = "absent" THEN <<Defect(loc, "missing")>>
    ELSE IF v.type \notin {"number", "string"} THEN <<Defect(loc, "datetime_type")>>
    ELSE IF DatetimeParse(v) # <<>> THEN <<>>
    ELSE IF v.type = "number" THEN <<Defect(loc, "datetime_parsing")>>
    ELSE <<Defect(loc, "datetime_from_date_parsing")>>

\* A schema that forbids keys it does not declare.
ExtraDefectsForbidden(v) ==
    IF v.type = "absent" THEN <<>> ELSE <<Defect("extra", "extra_forbidden")>>

\* model_config = ConfigDict(extra="allow") (line 66): a key the schema does
\* not declare is kept and is no defect.
ExtraDefects(v) == <<>>

\* exc.errors() of EcommerceEvent.model_validate(event): every field is
\* checked, in declaration order; <<>> when the event validates.  A payload
\* that is no JSON object fails as a whole.
ValidationErrors(event) ==
    IF event.json_type # "object" THEN <<Defect("", "model_type")>>
    ELSE UuidDefects("event_id", event.event_id)
         \o StrDefects("user_id", event.user_id)
         \o EnumDefects("event_type", event.event_type, EventType)
         \o StrDefects("product_id", event.product_id)
         \o StrDefects("category", event.category)
         \o FloatDefects("price", event.price)
         \o EnumDefects("device", event.device, DeviceType)
         \o StrDefects("city", event.city)
         \o DatetimeDefects("event_time", event.event_time)
         \o ExtraDefects(event.extra)

\* The typed record model_validate returns for an event without defects.
Validated(event) ==
    [event_id |-> CanonicalUuid(event.event_id.text)[1],
     user_id |-> event.user_id.text,
     event_type |-> event.event_type.text,
     product_id |-> event.product_id.text,
     category |-> event.category.text,
     price |-> FloatParse(event.price)[1],
     device |-> event.device.text,
     city |-> event.city.text,
     event_time |-> DatetimeParse(event.event_time)[1]]

\* ------------------------------------------------------------ configuration
\* load_config(): the table ids of the three destinations (the defaults).
RawTable == "ecommerce_raw_events"
ProcessedTable == "ecommerce_processed_events"
ErrorTable == "ecommerce_error_events"
Tables == {RawTable, ProcessedTable, ErrorTable}

\* config.source (line 137), with EVENT_SOURCE unset.
Source == "pubsub"

\* message.attributes as pubsub_push hands it to process_event (main.py 105,
\* 116): None when the message has none or it is no dict, else the dict, kept
\* here as its JSON text.
NoAttributes == None
OriginAttributes == Some("{\"origin\": \"web\"}")
EmptyAttributes == Some("{}")

\* json.dumps(attributes or {}) (lines 166, 228): None and the empty dict
\* both give "{}".
dumps_attributes(attributes) ==
    IF attributes = None \/ attributes = EmptyAttributes THEN "{}"
    ELSE attributes[1]

\* ------------------------------------------------------------- the requests
\* The scenario event of the specification and variations of it.
ValidEvent ==
    [json_type |-> "object",
     event_id |-> Str(UuidA),
     user_id |-> Str("U1"),
     event_type |-> Str("purchase"),
     product_id |-> Str("P1"),
     category |-> Str("electronics"),
     price |-> Num("12.5"),
     device |-> Str("mobile"),
     city |-> Str("Lagos"),
     event_time |-> JTime("string", TimeText("zulu", 0, 0)),
     extra |-> Absent]

\* A payload that json.loads decodes to something other than a dict ("[]").
ArrayPayload ==
    [json_type |-> "array",
     event_id |-> Absent, user_id |-> Absent, event_type |-> Absent,
     product_id |-> Absent, category |-> Absent, price |-> Absent,
     device |-> Absent, city |-> Absent,
     event_time |-> JTime("absent", AbsentTime),
     extra |-> Absent]

\* The same event with its event_id spelled in upper case.
UpperCaseEvent ==
    [ValidEvent EXCEPT !.event_id = Str("AAAAAAAA-AAAA-4AAA-8AAA-AAAAAAAAAAAA")]

\* An event with one defect (price -5) that carries an event_id.
NegativePriceEvent == [ValidEvent EXCEPT !.price = Num("-5")]

\* An event with several defects and no event_id.
AnonymousEvent ==
    [ValidEvent EXCEPT !.event_id = Absent, !.event_type = Absent,
                       !.event_time = JTime("string", MalformedTime)]

Payloads ==
    {ValidEvent, UpperCaseEvent, NegativePriceEvent, AnonymousEvent, ArrayPayload}

\* messageId of the envelope: absent (or no string), or a string.
MessageIds == {None, Some("m1")}

\* publishTime of the envelope, at +05:30.
PublishTime == TimeText("offset", 330, 330)

\* The push envelope.  decode is what lines 85-101 of pubsub_push make of the
\* request body: "ok", or what is wrong with it: "invalid json" (the body is
\* no JSON text), "not an object" (the body is JSON but no object), "missing
\* message", "missing data", "invalid payload" (base64, UTF-8 or JSON of data).
Envelope(decode, event, message_id, publish_time, attributes) ==
    [decode |-> decode, event |-> event, message_id |-> message_id,
     publish_time |-> publish_time, attributes |-> attributes]

\* The two kinds of message pushed: one without messageId and attributes, and
\* one that carries both.
Messages == {<<None, NoAttributes>>, <<Some("m1"), OriginAttributes>>}

\* The deliveries of the payloads above, with an in-range publishTime; the
\* deliveries whose timestamps are malformed, absent or out of range are
\* TimeEnvelopes below.
Envelopes ==
    {Envelope("ok", e, m[1], PublishTime, m[2]) : e \in Payloads, m \in Messages}
    \cup {Envelope(d, ArrayPayload, None, AbsentTime, NoAttributes) :
            d \in {"invalid json", "not an object",
                   "missing message", "missing data", "invalid payload"}}

\* A timestamp with an offset whose UTC reading lies before datetime.min
\* ("0001-01-01T00:00:00+05:30").
ExtremeTime == TimeText("offset", DatetimeMin, 330)

\* Events that differ from ValidEvent in event_time alone (malformed, absent,
\* ending in a lower-case z), and one with a second defect next to an extreme
\* event_time.
MalformedTimeEvent == [ValidEvent EXCEPT !.event_time = JTime("string", MalformedTime)]
AbsentTimeEvent == [ValidEvent EXCEPT !.event_time = JTime("absent", AbsentTime)]
LowerZTimeEvent ==
    [ValidEvent EXCEPT !.event_time = JTime("string", TimeText("lowerz", 0, 0))]
ExtremeTimeEvent ==
    [NegativePriceEvent EXCEPT !.event_time = JTime("string", ExtremeTime)]

PublishTimes ==
    {AbsentTime, MalformedTime, PublishTime, ExtremeTime,
     TimeText("lowerz", 0, 0), TimeText("lenient", 300, 300),
     TimeText("lenient_naive", 60, 0)}

\* Envelopes that vary the two timestamps of a delivery.
TimeEnvelopes ==
    {Envelope("ok", e, Some("m1"), t, EmptyAttributes) :
        e \in {ValidEvent, NegativePriceEvent, MalformedTimeEvent,
               AbsentTimeEvent, LowerZTimeEvent, ExtremeTimeEvent},
        t \in PublishTimes}

\* A string of 129 characters, one more than max_length.
LongString ==
    "aaaaaaaaaaaaaaaaaaaaaaaaaaaaaaaaaaaaaaaaaaaaaaaaaaaaaaaaaaaaaaaaaaaaaaaaaaaaaaaaaaaaaaaaaaaaaaaaaaaaaaaaaaaaaaaaaaaaaaaaaaaaaaaaaaaaaaaaa"

\* Inbound mappings that vary every field: every combination of the values
\* below, well formed and not, per field.
ProbeEvents ==
    {[json_type |-> "object",
      event_id |-> id, user_id |-> user, event_type |-> type,
      product_id |-> Str("P1"), category |-> category, price |-> price,
      device |-> device, city |-> city, event_time |-> time, extra |-> extra] :
        id \in {Str(UuidA), Str("not-a-uuid"), Absent},
        user \in {Str("U1"), Str("")},
        type \in {Str("purchase"), Str("PURCHASE"), Absent},
        category \in {Str("electronics"), Num("0")},
        price \in {Num("12.5"), Str("0.01"), Num("0"), Num("-5"), Str("abc"),
                   Bool("true"), Absent},
        device \in {Str("tablet"), Null},
        city \in {Str("Lagos"), Str(LongString)},
        time \in {JTime("string", TimeText("zulu", 0, 0)),
                  JTime("string", TimeText("offset", 330, 330)),
                  JTime("string", TimeText("naive", 60, 0)),
                  JTime("string", TimeText("lowerz", 0, 0)),
                  JTime("string", TimeText("lenient", 300, 300)),
                  JTime("string", TimeText("lenient_naive", 60, 0)),
                  JTime("string", ExtremeTime),
                  JTime("string", MalformedTime),
                  JTime("number", MalformedTime),
                  JTime("string", TimeText("unix", 90, 0)),
                  JTime("number", TimeText("unix", 90, 0)),
                  JTime("absent", AbsentTime)},
        extra \in {Absent, Str("campaign")}}

\* --------------------------------------------------------------- the state
VARIABLES
    calls,      \* request slot -> the request in it and where its handler stands
    tables,     \* table id -> the rows the store holds, each with its insertId
    clock,      \* the wall clock, in ticks of its resolution
    deliveries  \* the number of deliveries made so far

vars == <<calls, tables, clock, deliveries>>

\* The request slots: two requests can be in flight together.
Calls == 1..2

IdleCall ==
    [pc |-> "idle",
     envelope |-> Envelope("ok", ArrayPayload, None, AbsentTime, NoAttributes),
     ingestion_time |-> utc_now(0),
     writes |-> <<>>,
     exc |-> None,
     raised |-> None,
     status |-> 0]

Init ==
    /\ calls = [c \in Calls |-> IdleCall]
    /\ tables = [t \in Tables |-> <<>>]
    /\ clock = 0
    /\ deliveries = 0

\* ------------------------------------------------- process_event, its locals
\* is_valid (lines 199-206)
IsValid(event) == ValidationErrors(event) = <<>>

\* event_id_str (line 208): str(validated.event_id) if validated is not None
EventIdStr(event) ==
    IF IsValid(event) THEN Some(Validated(event).event_id) ELSE None

\* A conversion that relabels the wall-clock reading as UTC whatever the
\* offset.
EventTimeDtRelabelled(event) ==
    <<DateTime(Validated(event).event_time.wall, 0, TRUE)>>

\* event_time_dt (lines 210-216) of a validated event
EventTimeDt(event) ==
    LET t == Validated(event).event_time IN
    IF t.aware THEN <<AsUTC(t)>> ELSE <<DateTime(t.wall, 0, TRUE)>>

\* The exception that leaves process_event before its first sink call, None
\* when there is none: the OverflowError of the publish_time parse (line 197)
\* or of the event_time conversion (lines 212, 214), or the AttributeError of
\* event.get on a payload that is no dict (line 214).
Prelude(env) ==
    IF parse_rfc3339_timestamp_raises(env.publish_time) THEN Some("OverflowError")
    ELSE IF IsValid(env.event)
    THEN (IF Overflows(Validated(env.event).event_time)
          THEN Some("OverflowError") ELSE None)
    ELSE IF env.event.json_type # "object" THEN Some("AttributeError")
    ELSE IF env.event.event_time.type \in {"number", "string"}
            /\ parse_rfc3339_timestamp_raises(env.event.event_time.time)
    THEN Some("OverflowError")
    ELSE None

\* A handler that reads the ingestion instant from a value shared by all
\* requests, which holds the instant captured last.
IngestionTimeShared(cs, c) ==
    cs[CHOOSE d \in DOMAIN cs :
          \A e \in DOMAIN cs : cs[e].ingestion_time.wall <= cs[d].ingestion_time.wall
      ].ingestion_time

\* ingestion_time (line 195): a local of the call, captured once.
IngestionTime(cs, c) == cs[c].ingestion_time

\* An error writer keyed by message_id alone.
ErrorInsertIdMessageOnly(event_id, message_id) == message_id

\* insert_id of _insert_error_event (line 170): event_id or message_id
ErrorInsertId(event_id, message_id) ==
    IF event_id # None /\ event_id # Some("") THEN event_id ELSE message_id

\* insert_id (line 235): event_id_str or message_id
InsertId(event_id_str, message_id) ==
    IF event_id_str # None /\ event_id_str # Some("") THEN event_id_str ELSE message_id

\* raw_row (lines 221-231)
RawRow(env, ingestion_time) ==
    [message_id |-> env.message_id,
     event_id |-> EventIdStr(env.event),
     publish_time |-> to_rfc3339(parse_rfc3339_timestamp(env.publish_time)),
     ingestion_time |-> to_rfc3339(<<ingestion_time>>),
     raw_payload |-> env.event,
     source |-> Source,
     attributes |-> dumps_attributes(env.attributes),
     is_valid |-> IsValid(env.event),
     validation_errors |-> ValidationErrors(env.event)]

\* processed_row (lines 255-266)
ProcessedRow(env, ingestion_time) ==
    LET validated == Validated(env.event) IN
    [event_id |-> EventIdStr(env.event),
     user_id |-> validated.user_id,
     event_type |-> validated.event_type,
     product_id |-> validated.product_id,
     category |-> validated.category,
     price |-> validated.price,
     device |-> validated.device,
     city |-> validated.city,
     event_time |-> to_rfc3339(EventTimeDt(env.event)),
     ingestion_time |-> to_rfc3339(<<ingestion_time>>)]

\* the row of _insert_error_event (lines 157-168)
ErrorRow(env, ingestion_time, stage, error_message, error_details) ==
    [message_id |-> env.message_id,
     event_id |-> EventIdStr(env.event),
     publish_time |-> to_rfc3339(parse_rfc3339_timestamp(env.publish_time)),
     ingestion_time |-> to_rfc3339(<<ingestion_time>>),
     stage |-> stage,
     error_message |-> error_message,
     error_details |-> error_details,
     raw_payload |-> env.event,
     attributes |-> dumps_attributes(env.attributes),
     source |-> Source]

\* --------------------------------------------------------- the sink writer
\* The RuntimeError of insert_row (line 53); its text names the table.
InsertFailed(table) ==
    CASE table = RawTable -> "BigQuery insert failed for ecommerce_raw_events"
      [] table = ProcessedTable -> "BigQuery insert failed for ecommerce_processed_events"
      [] table = ErrorTable -> "BigQuery insert failed for ecommerce_error_events"

\* A writer that never hands an insertId to the store.
RowIdsDropped(insert_id) == <<>>

\* row_ids (line 50): the insertId handed to the store, <<>> for none.
RowIds(insert_id) ==
    IF insert_id # None /\ insert_id # Some("") THEN <<insert_id[1]>> ELSE <<>>

\* The store's side of a streaming insert that succeeds: a row whose insertId
\* the table already holds is dropped, any other row is appended.
StoreRows(rows, row, row_ids) ==
    IF row_ids # <<>> /\ \E i \in 1..Len(rows) : rows[i].insertId = row_ids
    THEN rows
    ELSE Append(rows, [insertId |-> row_ids, row |-> row])

\* insert_row(target, row, insert_id) with the store answering ok or not:
\* the tables afterwards.
insert_row(tbls, table, row, insert_id, ok) ==
    IF ok THEN [tbls EXCEPT ![table] = StoreRows(tbls[table], row, RowIds(insert_id))]
    ELSE tbls

\* One attempted write, as the call's log keeps it.
Write(table, row, insert_id, ok) ==
    [table |-> table, row |-> row, insert_id |-> insert_id, ok |-> ok]

\* ------------------------------------------------------ the handler's steps
\* A handler runs from one sink call to the next; each step below is the code
\* between two sink calls together with the sink call that ends it.

\* An endpoint that answers 400 to every body it cannot decode.
RejectStatusAlwaysClientError(decode) == 400

\* What the endpoint answers to a request it does not hand to process_event
\* (lines 85-101): request.json() raising on a body that is no JSON text and
\* envelope.get raising on a body that is no object are not caught, which the
\* framework answers with HTTP 500; the HTTPExceptions of lines 89, 93 and 101
\* are answered with HTTP 400.
RejectStatus(decode) ==
    IF decode \in {"invalid json", "not an object"} THEN 500 ELSE 400

\* A push endpoint that asks for redelivery whatever process_event did.
HttpStatusAlwaysRetry(raised) == 500

\* A push endpoint that acknowledges whatever process_event did.
HttpStatusAlwaysAccepted(raised) == 200

\* What pubsub_push answers (lines 111-127): HTTP 500 when process_event
\* raised, {"status": "accepted"} (HTTP 200) otherwise.
HttpStatus(raised) == IF raised # None THEN 500 ELSE 200

\* The handler of slot c ends: process_event returned (raised = None) or
\* raised, and pubsub_push answers.
Finish(call, raised) ==
    [call EXCEPT !.pc = "done", !.raised = raised, !.status = HttpStatus(raised)]

\* A router that returns after the raw insert of an invalid event.
AfterRawInsertNoErrorRow(is_valid, ok) ==
    IF ~ok \/ ~is_valid THEN "done" ELSE "processed_insert"

\* A router that carries on after a failed raw insert.
AfterRawInsertIgnoringFailure(is_valid, ok) ==
    IF ~is_valid THEN "validation_error_insert" ELSE "processed_insert"

\* A router that goes from the raw insert of a valid event straight to the
\* diagnostic row of the processed insert.
AfterRawInsertSkipsProcessed(is_valid, ok) ==
    IF ~ok THEN "done"
    ELSE IF ~is_valid THEN "validation_error_insert"
    ELSE "processed_error_insert"

\* Where process_event stands after the raw insert (lines 236-238): it is
\* done when the insert raised, else at the error insert of an invalid event
\* or at the processed insert of a valid one.
AfterRawInsert(is_valid, ok) ==
    IF ~ok THEN "done"
    ELSE IF ~is_valid THEN "validation_error_insert"
    ELSE "processed_insert"

\* A router that writes the diagnostic row after every processed insert.
AfterProcessedInsertAlwaysDiagnostic(ok) == "processed_error_insert"

\* Where process_event stands after the processed insert (lines 268-270):
\* done, or in the handler of the exception the insert raised.
AfterProcessedInsert(ok) ==
    IF ok THEN "done" ELSE "processed_error_insert"

\* What leaves the handler of line 270 (lines 272-287): `raise` in the
\* finally block re-raises the exception being handled there, which is the
\* one of _insert_error_event when that call raised.
Reraised(original, diagnostic_ok) ==
    IF diagnostic_ok THEN original ELSE Some(InsertFailed(ErrorTable))

\* What the wall clock can read when the next delivery starts: time is
\* counted from the first delivery, and a later one starts within the same
\* tick as the one before it or in the next.
Later == IF deliveries = 0 THEN {clock} ELSE {clock, clock + 1}

\* The request of a delivery of env when the clock reads tick, run up to
\* its first sink call: the envelope is decoded (lines 85-109), then
\* process_event runs lines 195-231, which may raise (Prelude).
Started(env, tick) ==
    LET call == [IdleCall EXCEPT !.envelope = env,
                                 !.ingestion_time = utc_now(tick)]
    IN IF env.decode # "ok"
       THEN [call EXCEPT !.pc = "done", !.status = RejectStatus(env.decode)]
       ELSE IF Prelude(env) # None
       THEN Finish(call, Prelude(env))
       ELSE [call EXCEPT !.pc = "raw_insert"]

\* pubsub_push up to the first sink call, for a delivery that takes the free
\* slot c.  The deliveries are counted and stop at MaxDeliveries.
pubsub_push(c, env) ==
    /\ calls[c].pc \in {"idle", "done"}
    /\ \A d \in Calls : d < c => calls[d].pc \notin {"idle", "done"}
    /\ deliveries < MaxDeliveries
    /\ deliveries' = deliveries + 1
    /\ clock' \in Later
    /\ UNCHANGED tables
    /\ calls' = [calls EXCEPT ![c] = Started(env, clock')]

\* writer.insert_row(raw_target, raw_row, insert_id=insert_id) (line 236)
raw_insert(c, ok) ==
    /\ calls[c].pc = "raw_insert"
    /\ LET call == calls[c]
           env == call.envelope
           row == RawRow(env, IngestionTime(calls, c))
           insert_id == InsertId(EventIdStr(env.event), env.message_id)
           logged == [call EXCEPT !.writes = Append(@, Write(RawTable, row, insert_id, ok))]
           next == AfterRawInsert(IsValid(env.event), ok)
       IN /\ tables' = insert_row(tables, RawTable, row, insert_id, ok)
          /\ calls' = [calls EXCEPT ![c] =
                IF next = "done"
                THEN Finish(logged, IF ok THEN None ELSE Some(InsertFailed(RawTable)))
                ELSE [logged EXCEPT !.pc = next]]
    /\ UNCHANGED <<clock, deliveries>>

\* _insert_error_event(stage="validation", ...) and return (lines 238-253)
validation_error_insert(c, ok) ==
    /\ calls[c].pc = "validation_error_insert"
    /\ LET call == calls[c]
           env == call.envelope
           row == ErrorRow(env, IngestionTime(calls, c), "validation",
                           "Schema validation failed", ValidationErrors(env.event))
           insert_id == ErrorInsertId(EventIdStr(env.event), env.message_id)
           logged == [call EXCEPT !.writes = Append(@, Write(ErrorTable, row, insert_id, ok))]
       IN /\ tables' = insert_row(tables, ErrorTable, row, insert_id, ok)
          /\ calls' = [calls EXCEPT ![c] =
                Finish(logged, IF ok THEN None ELSE Some(InsertFailed(ErrorTable)))]
    /\ UNCHANGED <<clock, deliveries>>

\* writer.insert_row(processed_target, processed_row, insert_id=insert_id)
\* (lines 255-270)
processed_insert(c, ok) ==
    /\ calls[c].pc = "processed_insert"
    /\ LET call == calls[c]
           env == call.envelope
           row == ProcessedRow(env, IngestionTime(calls, c))
           insert_id == InsertId(EventIdStr(env.event), env.message_id)
           logged == [call EXCEPT !.writes = Append(@, Write(ProcessedTable, row, insert_id, ok)),
                                  !.exc = IF ok THEN None
                                          ELSE Some(InsertFailed(ProcessedTable))]
           next == AfterProcessedInsert(ok)
       IN /\ tables' = insert_row(tables, ProcessedTable, row, insert_id, ok)
          /\ calls' = [calls EXCEPT ![c] =
                IF next = "done" THEN Finish(logged, logged.exc)
                ELSE [logged EXCEPT !.pc = next]]
    /\ UNCHANGED <<clock, deliveries>>

\* _insert_error_event(stage="processed_insert", ...) in the handler of the
\* failed processed insert, and the `raise` of its finally (lines 270-287)
processed_error_insert(c, ok) ==
    /\ calls[c].pc = "processed_error_insert"
    /\ LET call == calls[c]
           env == call.envelope
           exc == call.exc
           row == ErrorRow(env, IngestionTime(calls, c), "processed_insert", str(exc), <<>>)
           insert_id == ErrorInsertId(EventIdStr(env.event), env.message_id)
           logged == [call EXCEPT !.writes = Append(@, Write(ErrorTable, row, insert_id, ok))]
       IN /\ tables' = insert_row(tables, ErrorTable, row, insert_id, ok)
          /\ calls' = [calls EXCEPT ![c] = Finish(logged, Reraised(exc, ok))]
    /\ UNCHANGED <<clock, deliveries>>

Next ==
    \E c \in Calls :
        \/ \E env \in Envelopes : pubsub_push(c, env)
        \/ \E ok \in BOOLEAN : raw_insert(c, ok)
        \/ \E ok \in BOOLEAN : validation_error_insert(c, ok)
        \/ \E ok \in BOOLEAN : processed_insert(c, ok)
        \/ \E ok \in BOOLEAN : processed_error_insert(c, ok)

Spec == Init /\ [][Next]_vars

\* The same handler fed with the envelopes that vary the timestamps.
NextTimes ==
    \E c \in Calls :
        \/ \E env \in TimeEnvelopes : pubsub_push(c, env)
        \/ \E ok \in BOOLEAN : raw_insert(c, ok)
        \/ \E ok \in BOOLEAN : validation_error_insert(c, ok)
        \/ \E ok \in BOOLEAN : processed_insert(c, ok)
        \/ \E ok \in BOOLEAN : processed_error_insert(c, ok)

SpecTimes == Init /\ [][NextTimes]_vars

\* The handler fed once: one delivery of any envelope above or of an inbound
\* mapping that varies every field, delivered as message "m1", and the
\* handler runs as above, sink calls included.
ProbeEnvelope(event) ==
    Envelope("ok", event, Some("m1"), PublishTime, OriginAttributes)

ProbeEnvelopes == {ProbeEnvelope(e) : e \in ProbeEvents}

DeliverOnce(c) ==
    /\ deliveries = 0
    /\ \E env \in ProbeEnvelopes \cup TimeEnvelopes \cup Envelopes :
          pubsub_push(c, env)

NextRows ==
    \E c \in Calls :
        \/ DeliverOnce(c)
        \/ \E ok \in BOOLEAN : raw_insert(c, ok)
        \/ \E ok \in BOOLEAN : validation_error_insert(c, ok)
        \/ \E ok \in BOOLEAN : processed_insert(c, ok)
        \/ \E ok \in BOOLEAN : processed_error_insert(c, ok)

SpecRows == Init /\ [][NextRows]_vars

\* One message under redelivery.  The push subscription delivers a message
\* once; an answer of HTTP 500 puts the message back with the subscription
\* (Nack), which delivers it again, unchanged, and does so after every such
\* answer, without end.  The sink may fail a write during the first
\* MaxDeliveries - 1 deliveries and answers every write from then on.  The
\* deliveries are counted up to MaxDeliveries and the clock is read up to
\* then; a later delivery finds the count and the clock as that one did.
LiveEnvelopes == {e \in Envelopes \cup TimeEnvelopes : e.decode = "ok"}

SinkAnswers == IF deliveries < MaxDeliveries THEN BOOLEAN ELSE {TRUE}

Deliver(c) ==
    /\ deliveries = 0
    /\ \E env \in LiveEnvelopes : pubsub_push(c, env)

\* The answer HTTP 500 of the call in slot c reached the subscription.
Nack(c) ==
    /\ calls[c].pc = "done"
    /\ calls[c].status = 500
    /\ calls' = [calls EXCEPT ![c].pc = "nacked"]
    /\ UNCHANGED <<tables, clock, deliveries>>

Redeliver(c) ==
    /\ calls[c].pc = "nacked"
    /\ deliveries' = IF deliveries < MaxDeliveries THEN deliveries + 1
                     ELSE deliveries
    /\ clock' \in (IF deliveries < MaxDeliveries THEN Later ELSE {clock})
    /\ UNCHANGED tables
    /\ calls' = [calls EXCEPT ![c] = Started(calls[c].envelope, clock')]

NextLive ==
    \E c \in Calls :
        \/ Deliver(c)
        \/ Nack(c)
        \/ Redeliver(c)
        \/ \E ok \in SinkAnswers : raw_insert(c, ok)
        \/ \E ok \in SinkAnswers : validation_error_insert(c, ok)
        \/ \E ok \in SinkAnswers : processed_insert(c, ok)
        \/ \E ok \in SinkAnswers : processed_error_insert(c, ok)

\* The server runs a handler it started to its end and the delivery
\* mechanism does redeliver: no enabled step is put off forever.
SpecLive == Init /\ [][NextLive]_vars /\ WF_vars(NextLive)

\* ------------------------------------------------------------- the claims
\* The writes a call attempted on one table, in order.
WritesTo(call, table) == SelectSeq(call.writes, LAMBDA w : w.table = table)

\* The Error Row writes a call attempted with one stage tag.
ErrorWrites(call, stage) ==
    SelectSeq(call.writes, LAMBDA w : w.table = ErrorTable /\ w.row.stage = stage)

\* process_event was called for the request of slot c and has ended.
Ended(c) == calls[c].pc = "done" /\ calls[c].envelope.decode = "ok"

\* The event of the request in slot c has at least one defect.
Invalid(c) == ValidationErrors(calls[c].envelope.event) # <<>>

\* The event has at least one defect.
Invalid1(event) == ValidationErrors(event) # <<>>

AllSucceeded(call) == \A i \in 1..Len(call.writes) : call.writes[i].ok

\* C1 (as stated): a call for an event without defects, all of whose sink
\* writes succeed, writes exactly one Raw Row, with is_valid true, and exactly
\* one Processed Row, writes no Error Row, and returns without a failure.
C1_Original ==
    \A c \in Calls :
        (Ended(c) /\ ~Invalid(c) /\ AllSucceeded(calls[c])) =>
            /\ Len(WritesTo(calls[c], RawTable)) = 1
            /\ WritesTo(calls[c], RawTable)[1].row.is_valid
            /\ Len(WritesTo(calls[c], ProcessedTable)) = 1
            /\ Len(WritesTo(calls[c], ErrorTable)) = 0
            /\ calls[c].raised = None

C3_ProcessedFailureIsReported ==
    \A c \in Calls : \A i \in 1..Len(calls[c].writes) :
        (Ended(c) /\ calls[c].writes[i].table = ProcessedTable /\ ~calls[c].writes[i].ok) =>
            /\ Len(calls[c].writes) = i + 1
            /\ calls[c].writes[i + 1].table = ErrorTable
            /\ calls[c].writes[i + 1].row.stage = "processed_insert"
            /\ calls[c].writes[i + 1].row.error_message = InsertFailed(ProcessedTable)
            /\ calls[c].raised # None
            /\ calls[c].status = 500

C3_Witness ==
    \E c \in Calls :
        /\ Ended(c) /\ Len(calls[c].writes) = 3
        /\ calls[c].writes[2].table = ProcessedTable /\ ~calls[c].writes[2].ok
        /\ ~calls[c].writes[3].ok
        /\ calls[c].status = 500

\* C4: when the Raw Row write of a call fails, no further sink write is
\* attempted in that call, the failure leaves process_event and pubsub_push
\* answers HTTP 500.
C4_RawFailurePropagates ==
    \A c \in Calls : \A i \in 1..Len(calls[c].writes) :
        (calls[c].writes[i].table = RawTable /\ ~calls[c].writes[i].ok) =>
            /\ Len(calls[c].writes) = 1
            /\ calls[c].pc = "done"
            /\ calls[c].raised = Some(InsertFailed(RawTable))
            /\ calls[c].status = 500

C4_Witness ==
    \E c \in Calls :
        /\ Ended(c) /\ Len(calls[c].writes) = 1
        /\ calls[c].writes[1].table = RawTable /\ ~calls[c].writes[1].ok
        /\ calls[c].status = 500
        /\ tables[RawTable] = <<>>

\* C5 as stated: for an event with defects whose Raw Row write succeeded, a
\* failure of the Error Row write with stage "validation" is swallowed:
\* process_event returns without a failure and pubsub_push acknowledges.
C5_Original ==
    \A c \in Calls :
        (/\ Ended(c) /\ Invalid(c)
         /\ Len(WritesTo(calls[c], RawTable)) = 1
         /\ WritesTo(calls[c], RawTable)[1].ok) =>
            /\ calls[c].raised = None
            /\ calls[c].status = 200

\* C6 as stated: when the Processed Row write fails and the diagnostic Error
\* Row write fails too, the failure that leaves process_event is the one of
\* the Processed Row write.
C6_Original ==
    \A c \in Calls :
        (/\ Ended(c)
         /\ Len(calls[c].writes) = 3
         /\ calls[c].writes[2].table = ProcessedTable /\ ~calls[c].writes[2].ok
         /\ calls[c].writes[3].table = ErrorTable /\ ~calls[c].writes[3].ok) =>
            calls[c].raised = Some(InsertFailed(ProcessedTable))

\* C7 as stated: every write of a call is keyed by the event's event_id when
\* the event carries one (a well-formed UUID, whatever the other fields
\* hold), and by message_id when the event carries none.
C7_Original ==
    \A c \in Calls : \A i \in 1..Len(calls[c].writes) :
        LET env == calls[c].envelope
            id == env.event.event_id
        IN /\ (id.type = "string" /\ CanonicalUuid(id.text) # None) =>
                  calls[c].writes[i].insert_id = CanonicalUuid(id.text)
           /\ id.type = "absent" => calls[c].writes[i].insert_id = env.message_id

\* The rows a table holds for one delivered event: Raw and Error Rows carry
\* the payload and the messageId, Processed Rows the event_id.
RowsOf(table, event, message_id) ==
    IF table = ProcessedTable
    THEN SelectSeq(tables[table],
                   LAMBDA r : ~Invalid1(event) /\ r.row.event_id = Some(Validated(event).event_id))
    ELSE SelectSeq(tables[table],
                   LAMBDA r : r.row.raw_payload = event /\ r.row.message_id = message_id)

\* C8 as stated: with a store that suppresses a second write under the same
\* key, deliveries and redeliveries of one event (same payload, same
\* messageId) leave at most one row for it in each table.
C8_Original ==
    \A e \in Payloads : \A m \in MessageIds : \A t \in Tables :
        Len(RowsOf(t, e, m)) <= 1

\* C8, amended: the same, for an event that has a key: a valid event, or
\* any event delivered with a non-empty messageId.
C8_AtMostOneRowPerKeyedEvent ==
    \A e \in Payloads : \A m \in MessageIds : \A t \in Tables :
        (~Invalid1(e) \/ m \notin {None, Some("")}) => Len(RowsOf(t, e, m)) <= 1

\* The same envelope is in both slots, both Raw Row writes succeeded and the
\* store holds one Raw Row.
C8_Witness ==
    /\ calls[1].envelope = calls[2].envelope
    /\ \A c \in Calls :
          /\ calls[c].envelope.decode = "ok"
          /\ Len(calls[c].writes) >= 1
          /\ calls[c].writes[1].ok
    /\ Len(tables[RawTable]) = 1

\* C9 as stated: every call of process_event made by pubsub_push attempts
\* exactly one Raw Row write, whatever the decoded payload.
C9_Original ==
    \A c \in Calls : Ended(c) => Len(WritesTo(calls[c], RawTable)) = 1

\* C10: a call attempts at most one of the Processed Row write and the Error
\* Row write with stage "validation", and attempts an Error Row write with
\* stage "processed_insert" only after a Processed Row write of the same
\* call that failed.
C10_ExclusiveBranches ==
    \A c \in Calls :
        /\ Len(WritesTo(calls[c], ProcessedTable))
             + Len(ErrorWrites(calls[c], "validation")) <= 1
        /\ \A i \in 1..Len(calls[c].writes) :
              (/\ calls[c].writes[i].table = ErrorTable
               /\ calls[c].writes[i].row.stage = "processed_insert") =>
                  \E j \in 1..(i - 1) :
                      /\ calls[c].writes[j].table = ProcessedTable
                      /\ ~calls[c].writes[j].ok

C10_Witness ==
    \E c \in Calls :
        /\ Len(calls[c].writes) = 3
        /\ calls[c].writes[2].table = ProcessedTable /\ ~calls[c].writes[2].ok
        /\ calls[c].writes[3].table = ErrorTable
        /\ calls[c].writes[3].row.stage = "processed_insert"
        /\ calls[c].writes[3].ok

\* C11: for a delivery whose envelope decodes, pubsub_push answers HTTP 200
\* exactly when process_event returned and HTTP 500 exactly when a failure
\* left process_event; it never acknowledges a call that failed.
C11_StatusFollowsOutcome ==
    \A c \in Calls :
        Ended(c) =>
            /\ calls[c].status \in {200, 500}
            /\ calls[c].status = 200 <=> calls[c].raised = None
            /\ (\E i \in 1..Len(calls[c].writes) :
                    ~calls[c].writes[i].ok
                    /\ ~(calls[c].writes[i].table = ErrorTable
                         /\ calls[c].writes[i].row.stage = "validation"))
                  => calls[c].status = 500

\* A call that failed is answered 500 and one that returned is answered 200.
C11_Witness ==
    /\ Ended(1) /\ calls[1].raised # None /\ calls[1].status = 500
    /\ Ended(2) /\ calls[2].raised = None /\ calls[2].status = 200

\* C12 as stated: a delivery whose envelope or payload does not decode is
\* answered with the client error (HTTP 400), never with HTTP 500, and no
\* sink write is attempted for it.
C12_Original ==
    \A c \in Calls :
        (calls[c].pc = "done" /\ calls[c].envelope.decode # "ok") =>
            /\ calls[c].status = 400
            /\ calls[c].writes = <<>>

\* C13 (as stated): _parse_rfc3339_timestamp never propagates a failure, so no
\* publish_time of the envelope makes process_event fail: no delivery carries
\* a publish_time on which the normalizer raises, and no call ends with the
\* normalizer's OverflowError.
C13_Original ==
    \A c \in Calls :
        (calls[c].pc # "idle" /\ calls[c].envelope.decode = "ok") =>
            /\ ~parse_rfc3339_timestamp_raises(calls[c].envelope.publish_time)
            /\ calls[c].raised # Some("OverflowError")

\* The sink's answer to the i-th write of a call; a write not answered yet
\* counts as succeeding.
Ok(oks, i) == IF i <= Len(oks) THEN oks[i] ELSE TRUE

\* process_event run on its own, from line 195 to its end, on envelope env
\* with the instant t captured on line 195 and the sink answering oks: the
\* writes it attempts in order and what it raises.
SoloRun(env, t, oks) ==
    LET key == InsertId(EventIdStr(env.event), env.message_id)
        error_key == ErrorInsertId(EventIdStr(env.event), env.message_id)
        raw == Write(RawTable, RawRow(env, t), key, Ok(oks, 1))
    IN IF Prelude(env) # None
       THEN [writes |-> <<>>, raised |-> Prelude(env)]
       ELSE IF AfterRawInsert(IsValid(env.event), Ok(oks, 1)) = "done"
       THEN [writes |-> <<raw>>, raised |-> Some(InsertFailed(RawTable))]
       ELSE IF AfterRawInsert(IsValid(env.event), Ok(oks, 1)) = "validation_error_insert"
       THEN [writes |-> <<raw,
                          Write(ErrorTable,
                                ErrorRow(env, t, "validation", "Schema validation failed",
                                         ValidationErrors(env.event)),
                                error_key, Ok(oks, 2))>>,
             raised |-> IF Ok(oks, 2) THEN None ELSE Some(InsertFailed(ErrorTable))]
       ELSE LET processed == Write(ProcessedTable, ProcessedRow(env, t), key, Ok(oks, 2))
            IN IF AfterProcessedInsert(Ok(oks, 2)) = "done"
               THEN [writes |-> <<raw, processed>>, raised |-> None]
               ELSE [writes |-> <<raw, processed,
                                  Write(ErrorTable,
                                        ErrorRow(env, t, "processed_insert",
                                                 InsertFailed(ProcessedTable), <<>>),
                                        error_key, Ok(oks, 3))>>,
                     raised |-> Reraised(Some(InsertFailed(ProcessedTable)), Ok(oks, 3))]

\* The sink's answers a call has had so far.
Answers(call) == [i \in 1..Len(call.writes) |-> call.writes[i].ok]

\* The tables after the writes ws reached them in order, starting from tbls.
RECURSIVE Replay(_, _)
Replay(ws, tbls) ==
    IF ws = <<>> THEN tbls
    ELSE Replay(Tail(ws),
                insert_row(tbls, Head(ws).table, Head(ws).row,
                           Head(ws).insert_id, Head(ws).ok))

\* Each call went as it would have gone alone: its log is the beginning of
\* the solo run's writes, and once it has ended it is all of them, with the
\* same exception and the same answer.
AsIfAlone ==
    \A c \in Calls :
        (calls[c].pc # "idle" /\ calls[c].envelope.decode = "ok") =>
            LET call == calls[c]
                solo == SoloRun(call.envelope, call.ingestion_time, Answers(call))
            IN /\ Len(call.writes) <= Len(solo.writes)
               /\ call.writes = SubSeq(solo.writes, 1, Len(call.writes))
               /\ call.pc = "done" =>
                     /\ call.writes = solo.writes
                     /\ call.raised = solo.raised
                     /\ call.status = HttpStatus(solo.raised)

\* The rows one delivery of env at instant t can leave in a table.
SoloRows(env, t, table) ==
    LET kept(run) == {run.writes[i].row :
                        i \in {j \in 1..Len(run.writes) :
                                 run.writes[j].table = table /\ run.writes[j].ok}}
    IN kept(SoloRun(env, t, <<TRUE, TRUE, TRUE>>))
       \cup kept(SoloRun(env, t, <<TRUE, FALSE, TRUE>>))

\* The rows a delivery of any envelope, at any instant of the clock, can
\* leave in each table.
AnySoloRows(table) ==
    UNION {SoloRows(env, utc_now(t), table) :
             env \in {e \in Envelopes \cup TimeEnvelopes :
                        e.decode = "ok" /\ Prelude(e) = None},
             t \in 0..MaxDeliveries}
AnyRawRows == AnySoloRows(RawTable)
AnyProcessedRows == AnySoloRows(ProcessedTable)
AnyErrorRows == AnySoloRows(ErrorTable)

\* C14 (as stated): every call goes as if it ran alone, and after an event
\* was delivered twice (the same envelope, possibly concurrently) the tables
\* hold what one delivery of it leaves.
C14_Original ==
    /\ AsIfAlone
    /\ (/\ deliveries = 2
        /\ Ended(1) /\ Ended(2)
        /\ calls[1].envelope = calls[2].envelope) =>
            \E t \in 0..2 : \E oks \in [1..3 -> BOOLEAN] :
                tables = Replay(SoloRun(calls[1].envelope, utc_now(t), oks).writes,
                                [tb \in Tables |-> <<>>])

\* C14 (amended): every call goes as if it ran alone with the same sink
\* answers, whatever the other call does; and every row the deduplicating
\* sink holds is a row that one delivery, run alone, writes to that table.
\* The tables as a whole need not be those of one delivery: the rows of
\* different tables may stem from different deliveries (and so differ in
\* ingestion_time), and the Error Row of a failed attempt stays next to the
\* Processed Row of a later one.
C14_CallsAreIndependent ==
    /\ AsIfAlone
    /\ \A i \in 1..Len(tables[RawTable]) :
          tables[RawTable][i].row \in AnyRawRows
    /\ \A i \in 1..Len(tables[ProcessedTable]) :
          tables[ProcessedTable][i].row \in AnyProcessedRows
    /\ \A i \in 1..Len(tables[ErrorTable]) :
          tables[ErrorTable][i].row \in AnyErrorRows

\* Two deliveries of the same valid event overlapped: both calls have ended
\* and the Raw Row kept is the first call's while the Processed Row kept is
\* the second call's.
C14_Witness ==
    /\ Ended(1) /\ Ended(2)
    /\ calls[1].envelope = calls[2].envelope
    /\ calls[1].raised = None /\ calls[2].raised = None
    /\ Len(calls[1].writes) = 2 /\ Len(calls[2].writes) = 2
    /\ tables[RawTable] # <<>> /\ tables[ProcessedTable] # <<>>
    /\ tables[RawTable][1].row = calls[1].writes[1].row
    /\ tables[ProcessedTable][1].row = calls[2].writes[2].row

\* C15: within one call the writes are attempted one after the other, each
\* one answered before the next is attempted: the Raw Row write comes first
\* and only it is a Raw Row write; a Processed Row or "validation" Error Row
\* write is the second, attempted after the Raw Row write was answered; an
\* Error Row write of stage "processed_insert" is the third, attempted after
\* the Processed Row write was answered (with a failure); and the call stands
\* at exactly the write that comes next.
C15_WritesAreSequential ==
    \A c \in Calls :
        LET call == calls[c]
            n == Len(call.writes)
        IN /\ n <= 3
           /\ \A i \in 1..n : (i = 1) <=> (call.writes[i].table = RawTable)
           /\ \A i \in 1..n :
                 call.writes[i].table = ProcessedTable => i = 2 /\ call.writes[1].ok
           /\ \A i \in 1..n :
                 call.writes[i].table = ErrorTable =>
                    IF call.writes[i].row.stage = "processed_insert"
                    THEN /\ i = 3
                         /\ call.writes[2].table = ProcessedTable
                         /\ ~call.writes[2].ok
                    ELSE i = 2 /\ call.writes[1].ok
           /\ call.pc = "raw_insert" => n = 0
           /\ call.pc \in {"validation_error_insert", "processed_insert"} => n = 1
           /\ call.pc = "processed_error_insert" => n = 2

\* A call attempted all three writes: raw, processed (failed) and the
\* diagnostic Error Row, and has ended.
C15_Witness ==
    \E c \in Calls :
        /\ Ended(c)
        /\ Len(calls[c].writes) = 3
        /\ calls[c].writes[1].table = RawTable
        /\ calls[c].writes[2].table = ProcessedTable
        /\ calls[c].writes[3].table = ErrorTable

\* C16: all the writes a call attempts (Raw Row, Processed Row, Error Rows)
\* carry the same idempotency key, and the event_id column of each of the
\* rows equals that of the call's Raw Row.
C16_OneKeyPerCall ==
    \A c \in Calls : \A i \in 1..Len(calls[c].writes) :
        /\ calls[c].writes[i].insert_id = calls[c].writes[1].insert_id
        /\ calls[c].writes[i].row.event_id = calls[c].writes[1].row.event_id

\* A call of an event that has both an event_id and a messageId wrote a Raw
\* Row, a Processed Row and an Error Row, all keyed by the event_id.
C16_Witness ==
    \E c \in Calls :
        /\ Len(calls[c].writes) = 3
        /\ calls[c].envelope.message_id = Some("m1")
        /\ calls[c].writes[3].table = ErrorTable
        /\ calls[c].writes[3].insert_id = Some(UuidA)
        /\ calls[c].writes[3].row.event_id = Some(UuidA)

\* Every row a call wrote carries the instant the call captured, which is a
\* reading of the clock.
RowsCarryTheInstant ==
    \A c \in Calls :
        calls[c].pc # "idle" =>
           /\ \E k \in 0..clock : calls[c].ingestion_time = utc_now(k)
           /\ \A i \in 1..Len(calls[c].writes) :
                 calls[c].writes[i].row.ingestion_time
                    = to_rfc3339(<<calls[c].ingestion_time>>)

\* C17 (as stated): a call captures the ingestion instant once and every row
\* it writes (Raw, Processed, Error) carries that instant as its
\* ingestion_time; a redelivery captures a new instant, so two calls never
\* hold the same one.
C17_Original ==
    /\ RowsCarryTheInstant
    /\ \A c, d \in Calls :
          (c # d /\ calls[c].pc # "idle" /\ calls[d].pc # "idle") =>
             calls[c].ingestion_time # calls[d].ingestion_time

\* C17 (amended): a call captures the ingestion instant once, by reading the
\* clock when it starts, and every row it writes carries that instant; the
\* instant a slot holds changes only when a delivery starts a call there, and
\* is then the reading of the clock at that moment, never the instant of an
\* earlier delivery carried over.  Two calls that start within one tick of
\* the clock hold equal instants.
C17_OneIngestionInstantPerCall ==
    /\ []RowsCarryTheInstant
    /\ [][\A c \in Calls :
            IF deliveries' # deliveries /\ calls'[c] # calls[c]
            THEN calls'[c].ingestion_time = utc_now(clock')
            ELSE calls'[c].ingestion_time = calls[c].ingestion_time]_vars

\* The same envelope was delivered twice within one tick of the clock: the
\* second call started before the first wrote its last row, both captured
\* the same instant and all their rows carry it.
C17_Witness ==
    /\ calls[1].envelope = calls[2].envelope
    /\ Ended(1) /\ Ended(2)
    /\ Len(calls[1].writes) = 3 /\ Len(calls[2].writes) = 2
    /\ calls[1].ingestion_time = calls[2].ingestion_time
    /\ calls[1].writes[3].row.ingestion_time = calls[2].writes[2].row.ingestion_time
    /\ calls[1].writes[3].row.ingestion_time = calls[1].writes[1].row.ingestion_time

\* A row with its publish_time column left out of the comparison; Processed
\* Rows have no such column.
WithoutPublishTime(w) ==
    IF w.table = ProcessedTable THEN w.row
    ELSE [w.row EXCEPT !.publish_time = AbsentTime]

\* C18 (as stated): publish_time does not change a call.  Two calls whose
\* envelopes differ in publish_time at most, and whose writes the sink
\* answered alike as far as both went, attempted the same writes to the same
\* tables under the same key with the same rows but for publish_time, and
\* ended alike; a publish_time the normalizer gives the absence value for is
\* absent from the rows; and an event whose event_time is absent, or a string
\* the normalizer gives the absence value for, is invalid.
C18_Original ==
    /\ (/\ Ended(1) /\ Ended(2)
        /\ calls[1].envelope.event = calls[2].envelope.event
        /\ calls[1].envelope.message_id = calls[2].envelope.message_id
        /\ \A i \in 1..Len(calls[1].writes) :
              i <= Len(calls[2].writes) =>
                 calls[1].writes[i].ok = calls[2].writes[i].ok) =>
            /\ Len(calls[1].writes) = Len(calls[2].writes)
            /\ \A i \in 1..Len(calls[1].writes) :
                  /\ i <= Len(calls[2].writes)
                  /\ calls[1].writes[i].table = calls[2].writes[i].table
                  /\ calls[1].writes[i].insert_id = calls[2].writes[i].insert_id
                  /\ [WithoutPublishTime(calls[1].writes[i])
                        EXCEPT !.ingestion_time = AbsentTime]
                     = [WithoutPublishTime(calls[2].writes[i])
                        EXCEPT !.ingestion_time = AbsentTime]
            /\ calls[1].raised = calls[2].raised
            /\ calls[1].status = calls[2].status
    /\ \A c \in Calls : \A i \in 1..Len(calls[c].writes) :
          (/\ calls[c].writes[i].table # ProcessedTable
           /\ parse_rfc3339_timestamp(calls[c].envelope.publish_time) = <<>>) =>
              calls[c].writes[i].row.publish_time = AbsentTime
    /\ \A c \in Calls :
          (/\ Len(calls[c].writes) >= 1
           /\ calls[c].envelope.event.event_time.type = "string" =>
                 parse_rfc3339_timestamp(calls[c].envelope.event.event_time.time)
                    = <<>>) =>
              ~calls[c].writes[1].row.is_valid

\* The mandatory fields of the schema.
Fields ==
    {"event_id", "user_id", "event_type", "product_id", "category", "price",
     "device", "city", "event_time"}

\* The mandatory fields of an inbound mapping that are absent or malformed by
\* the stated rules: event_id a UUID; user_id, product_id, category and city
\* strings of 1 to 128 characters; event_type and device one of the canonical
\* values, exactly; price a real number, at least 0; event_time a string the
\* timestamp normalizer turns into an instant.
AbsentOrMalformed(event) ==
    LET text_ok(v) == v.type = "string" /\ Len(v.text) >= 1 /\ Len(v.text) <= MaxStrLen
    IN {f \in Fields :
          CASE f = "event_id" ->
                   ~(event.event_id.type = "string"
                     /\ CanonicalUuid(event.event_id.text) # None)
            [] f = "user_id" -> ~text_ok(event.user_id)
            [] f = "product_id" -> ~text_ok(event.product_id)
            [] f = "category" -> ~text_ok(event.category)
            [] f = "city" -> ~text_ok(event.city)
            [] f = "event_type" ->
                   ~(event.event_type.type = "string"
                     /\ event.event_type.text \in EventType)
            [] f = "device" ->
                   ~(event.device.type = "string" /\ event.device.text \in DeviceType)
            [] f = "price" ->
                   ~(/\ event.price.type \in {"number", "string"}
                     /\ Hundredths(event.price.text) # <<>>
                     /\ Hundredths(event.price.text)[1] >= 0)
            [] f = "event_time" ->
                   ~(/\ event.event_time.type = "string"
                     /\ fromisoformat(event.event_time.time) # <<>>)}

\* The fields the defects of a Raw Row name.
DefectFields(row) ==
    {row.validation_errors[i].loc : i \in 1..Len(row.validation_errors)}

\* C19 (as stated): the defects recorded in the Raw Row name exactly the
\* mandatory fields that are absent or malformed, all of them at once, the
\* row is flagged valid exactly when there is none, and a key the schema does
\* not know changes nothing.
C19_Original ==
    \A c \in Calls : calls[c].writes # <<>> =>
        LET event == calls[c].envelope.event
            raw == calls[c].writes[1].row
        IN /\ DefectFields(raw) = AbsentOrMalformed(event)
           /\ raw.is_valid <=> AbsentOrMalformed(event) = {}
           /\ raw.validation_errors
                = ValidationErrors([event EXCEPT !.extra = Absent])

\* The JSON text of a float column as the sink receives it, by its value in
\* hundredths.
FloatRepr(hundredths) ==
    CASE hundredths = 1250 -> "12.5"
      [] hundredths = 0 -> "0.0"
      [] hundredths = 1 -> "0.01"
      [] hundredths = 100 -> "1.0"
      [] hundredths = -500 -> "-5.0"

\* C20: the typed columns of the Processed Row of a Validated Event, parsed
\* back by the rules that produced them, give the values validated: the
\* event_type and device text is the canonical value of the same member, the
\* price read back from the row is the same number, and the event_time text
\* read by _parse_rfc3339_timestamp is the UTC instant the input denoted,
\* whatever its offset.
C20_RoundTrip ==
    \A c \in Calls : \A i \in 1..Len(calls[c].writes) :
      calls[c].writes[i].table = ProcessedTable =>
        LET event == calls[c].envelope.event
            validated == Validated(event)
            row == calls[c].writes[i].row
        IN /\ EnumDefects("event_type", Str(row.event_type), EventType) = <<>>
           /\ row.event_type = validated.event_type
           /\ EnumDefects("device", Str(row.device), DeviceType) = <<>>
           /\ row.device = validated.device
           /\ FloatDefects("price", Num(FloatRepr(row.price))) = <<>>
           /\ Hundredths(FloatRepr(row.price)) = <<validated.price>>
           /\ ~parse_rfc3339_timestamp_raises(row.event_time)
           /\ parse_rfc3339_timestamp(row.event_time)
                = <<DateTime(validated.event_time.wall - validated.event_time.off,
                             0, TRUE)>>

\* The Processed Row of a valid event whose event_time carries the offset
\* +05:30 and whose price came as the string "0.01" was written.
C20_Witness ==
    /\ Len(calls[1].writes) = 2
    /\ calls[1].writes[2].table = ProcessedTable
    /\ calls[1].writes[2].ok
    /\ calls[1].envelope.event.event_time.time.form = "offset"
    /\ calls[1].envelope.event.event_time.time.off = 330
    /\ calls[1].envelope.event.price = Str("0.01")
    /\ calls[1].writes[2].row.event_time = TimeText("zulu", 0, 0)

\* The message was pushed and its payload decoded.
Delivered == calls[1].pc # "idle" /\ calls[1].envelope.decode = "ok"

\* The latest delivery of the message was answered with HTTP 200.
Acknowledged == calls[1].pc = "done" /\ calls[1].status = 200

\* A valid event is acknowledged only by a call whose Raw Row write and
\* Processed Row write both succeeded.
AckedAfterBothRows ==
    (Acknowledged /\ IsValid(calls[1].envelope.event)) =>
        /\ \E i \in 1..Len(calls[1].writes) :
              calls[1].writes[i].table = RawTable /\ calls[1].writes[i].ok
        /\ \E i \in 1..Len(calls[1].writes) :
              calls[1].writes[i].table = ProcessedTable /\ calls[1].writes[i].ok

\* C21 (as stated): with redelivery after every HTTP 500 and a sink that
\* eventually stops failing, every delivered decodable payload is eventually
\* acknowledged (so none is answered with HTTP 500 on every redelivery for
\* ever), and a valid event is acknowledged only after its Raw Row and its
\* Processed Row were both written successfully.
C21_Original ==
    /\ [](AckedAfterBothRows)
    /\ Delivered ~> Acknowledged

====
